---- MODULE Spec2Model ----
(***************************************************************************)
(* Model of the translation client PrymeUI (src/unnamed/part_001): the     *)
(* React state of the component, the LiveKit room it talks to, and the     *)
(* handlers that react to room events and to the user's buttons.           *)
(*                                                                         *)
(* Strings are sequences of characters.  A character is written as a       *)
(* one-character string when it is ASCII and as "U+XXXX" (its code point)  *)
(* otherwise, so that length, trimming and concatenation are those of the  *)
(* JavaScript strings of the source.                                       *)
(***************************************************************************)
EXTENDS Integers, Sequences, FiniteSets, TLC

VARIABLES
  selectedRoom,      \* useState(null): the language room chosen, or None
  token,             \* useState(''): the credential
  liveKitUrl,        \* useState(''): the server address
  isConnected,       \* useState(false)
  isTranslating,     \* useState(false)
  subtitle,          \* useState(''): the caption shown
  partialSubtitle,   \* useState('')
  finalSubtitle,     \* useState('')
  agentParticipant,  \* useState(null): identity of the agent, or None
  debugEvents,       \* useState([]): the event history, newest first
  roomRef,           \* useRef(null): TRUE when it holds the mounted Room
  room,              \* the Room of the mounted <LiveKitRoom>, or NoRoom
  fetches,           \* credential requests awaiting their response
  sends,             \* toggleTranslation calls suspended at await publishData
  sent,              \* the packets this client has put on the Room's data channel
  timers,            \* pending setTimeout callbacks
  clock,             \* number of payloads the Room has delivered
  audio,             \* track listeners, subscribed tracks, playback sinks, audioRef
  last               \* the handler that ran last: its argument, its outcome and
                     \* the caption texts it started from

vars == <<selectedRoom, token, liveKitUrl, isConnected, isTranslating, subtitle,
          partialSubtitle, finalSubtitle, agentParticipant, debugEvents, roomRef,
          room, fetches, sends, sent, timers, clock, audio, last>>

----------------------------------------------------------------------------
(* Strings *)

S_translation_stream == <<"t", "r", "a", "n", "s", "l", "a", "t", "i", "o", "n", "_", "s", "t", "r", "e", "a", "m">>
S_translation == <<"t", "r", "a", "n", "s", "l", "a", "t", "i", "o", "n">>
S_transcript == <<"t", "r", "a", "n", "s", "c", "r", "i", "p", "t">>
S_translation_status == <<"t", "r", "a", "n", "s", "l", "a", "t", "i", "o", "n", "_", "s", "t", "a", "t", "u", "s">>
S_translation_control == <<"t", "r", "a", "n", "s", "l", "a", "t", "i", "o", "n", "_", "c", "o", "n", "t", "r", "o", "l">>
S_stopped == <<"s", "t", "o", "p", "p", "e", "d">>
S_started == <<"s", "t", "a", "r", "t", "e", "d">>
S_other == <<"o", "t", "h", "e", "r">>
S_null == <<"n", "u", "l", "l">>
S_true == <<"t", "r", "u", "e">>
S_false == <<"f", "a", "l", "s", "e">>
K_type == <<"\"", "t", "y", "p", "e", "\"", ":">>
K_text == <<"\"", "t", "e", "x", "t", "\"", ":">>
K_content == <<"\"", "c", "o", "n", "t", "e", "n", "t", "\"", ":">>
K_is_final == <<"\"", "i", "s", "_", "f", "i", "n", "a", "l", "\"", ":">>
K_status == <<"\"", "s", "t", "a", "t", "u", "s", "\"", ":">>
K_language == <<"\"", "l", "a", "n", "g", "u", "a", "g", "e", "\"", ":">>
K_confidence == <<"\"", "c", "o", "n", "f", "i", "d", "e", "n", "c", "e", "\"", ":">>

\* ' ⏳' (line 580)
PendingIndicator == <<" ", "U+23F3">>
\* '翻译状态: ' (line 633)
StatusPrefix == <<"U+7FFB", "U+8BD1", "U+72B6", "U+6001", ":", " ">>
\* '翻译模式已启动，请开始说话...' (line 222)
StartedNotice == <<"U+7FFB", "U+8BD1", "U+6A21", "U+5F0F", "U+5DF2", "U+542F", "U+52A8", "U+FF0C", "U+8BF7", "U+5F00", "U+59CB", "U+8BF4", "U+8BDD", ".", ".", ".">>
\* '翻译模式已停止' (line 259)
StoppedNotice == <<"U+7FFB", "U+8BD1", "U+6A21", "U+5F0F", "U+5DF2", "U+505C", "U+6B62">>
\* '翻译控制失败，请重试' (line 272)
FailedNotice == <<"U+7FFB", "U+8BD1", "U+63A7", "U+5236", "U+5931", "U+8D25", "U+FF0C", "U+8BF7", "U+91CD", "U+8BD5">>

\* The ASCII marks in place of the full-width ones: a filter that C6 tells
\* from the filter of line 566.
AsciiPunctuationSet == {".", "!", "?", ",", ";", ":"}

\* The character class of the regular expression /[。！？，、；：]/ (line 566).
PunctuationSet == {"U+3002", "U+FF01", "U+FF1F", "U+FF0C", "U+3001", "U+FF1B", "U+FF1A"}

\* The characters String.prototype.trim removes (those the inputs can hold).
WhiteSpace == {" ", "\t", "\n", "U+3000"}

RECURSIVE TrimStart(_)
TrimStart(s) ==
  IF s # <<>> /\ Head(s) \in WhiteSpace THEN TrimStart(Tail(s)) ELSE s

RECURSIVE TrimEnd(_)
TrimEnd(s) ==
  IF s # <<>> /\ s[Len(s)] \in WhiteSpace THEN TrimEnd(SubSeq(s, 1, Len(s) - 1)) ELSE s

\* String.prototype.trim
Trim(s) == TrimEnd(TrimStart(s))

\* /[。！？，、；：]/.test(s): some character of s is in the class.
TestPunctuation(s) == \E i \in 1..Len(s) : s[i] \in PunctuationSet

\* String.prototype.includes
Includes(s, sub) ==
  \E i \in 1..(Len(s) - Len(sub) + 1) : SubSeq(s, i, i + Len(sub) - 1) = sub

----------------------------------------------------------------------------
(* JSON values.  Every value is a record of the same shape so that values   *)
(* of different JavaScript types can be compared.                           *)

Undefined == [t |-> "undefined", s |-> <<>>, n |-> 0, b |-> FALSE]
JNull == [t |-> "null", s |-> <<>>, n |-> 0, b |-> FALSE]
JStr(s) == [t |-> "string", s |-> s, n |-> 0, b |-> FALSE]
JNum(n) == [t |-> "number", s |-> <<>>, n |-> n, b |-> FALSE]
JBool(b) == [t |-> "boolean", s |-> <<>>, n |-> 0, b |-> b]

\* JavaScript truthiness of a value.
Truthy(v) ==
  CASE v.t = "string" -> v.s # <<>>
    [] v.t = "number" -> v.n # 0
    [] v.t = "boolean" -> v.b
    [] OTHER -> FALSE

\* a || b
OrElse(a, b) == IF Truthy(a) THEN a ELSE b

\* v == null (undefined or null): what optional chaining ?. stops at.
Nullish(v) == v.t \in {"undefined", "null"}

\* A parsed JSON document: an object with the fields the client reads, or a
\* value that is no object (null, a number).
Obj(type, text, content, is_final, status, language, confidence) ==
  [k |-> "object", num |-> 0, type |-> type, text |-> text, content |-> content,
   is_final |-> is_final, status |-> status, language |-> language,
   confidence |-> confidence]

NonObj(k, n) ==
  [k |-> k, num |-> n, type |-> Undefined, text |-> Undefined, content |-> Undefined,
   is_final |-> Undefined, status |-> Undefined, language |-> Undefined,
   confidence |-> Undefined]

Digits == <<"0", "1", "2", "3", "4", "5", "6", "7", "8", "9">>

\* JSON.stringify of a field value (numbers are single digits here).
StringifyValue(v) ==
  CASE v.t = "string" -> <<"\"">> \o v.s \o <<"\"">>
    [] v.t = "number" -> <<Digits[v.n + 1]>>
    [] v.t = "boolean" -> IF v.b THEN S_true ELSE S_false
    [] OTHER -> S_null

\* "key":value, or nothing when the field is absent
Member(key, v) == IF v.t = "undefined" THEN <<>> ELSE <<key \o StringifyValue(v)>>

RECURSIVE JoinComma(_)
JoinComma(ms) ==
  IF ms = <<>> THEN <<>>
  ELSE IF Len(ms) = 1 THEN ms[1]
  ELSE ms[1] \o <<",">> \o JoinComma(Tail(ms))

\* JSON.stringify of a document: the text the agent puts on the wire.
Stringify(doc) ==
  CASE doc.k = "object" ->
         <<"{">> \o JoinComma(Member(K_type, doc.type) \o Member(K_text, doc.text)
                              \o Member(K_content, doc.content)
                              \o Member(K_is_final, doc.is_final)
                              \o Member(K_status, doc.status)
                              \o Member(K_language, doc.language)
                              \o Member(K_confidence, doc.confidence)) \o <<"}">>
    [] doc.k = "number" -> <<Digits[doc.num + 1]>>
    [] OTHER -> S_null

----------------------------------------------------------------------------
(* Inbound payloads *)

StreamType == JStr(S_translation_stream)
TranslationType == JStr(S_translation)
TranscriptType == JStr(S_transcript)
StatusType == JStr(S_translation_status)

\* Texts an event can carry: empty, blank, one letter, one full-width
\* punctuation mark, one ASCII punctuation mark, a padded punctuation mark,
\* two letters.
StreamTexts ==
  {<<>>, <<" ">>, <<"a">>, <<"U+FF0C">>, <<".">>, <<" ", "U+3002", " ">>, <<"a", "b">>}

StreamDocs ==
  {Obj(StreamType, JStr(tx), Undefined, JBool(fin), Undefined, Undefined, Undefined) :
     tx \in StreamTexts, fin \in BOOLEAN}
  \cup {Obj(StreamType, Undefined, Undefined, JBool(TRUE), Undefined, Undefined, Undefined),
        Obj(StreamType, JStr(<<"c", "d">>), Undefined, Undefined, Undefined, Undefined, Undefined),
        Obj(StreamType, JStr(<<"a", "b", "c">>), Undefined, JBool(TRUE), Undefined, Undefined, Undefined)}

TranslationDocs ==
  {Obj(TranslationType, tc[1], tc[2], Undefined, Undefined, Undefined, Undefined) :
     tc \in {<<JStr(<<"a", "b">>), Undefined>>,
             <<Undefined, JStr(<<"c", "d">>)>>,
             <<JStr(<<>>), JStr(<<"c", "d">>)>>,
             <<JStr(<<" ">>), JStr(<<"c", "d">>)>>,
             <<Undefined, Undefined>>}}

TranscriptDocs ==
  {Obj(TranscriptType, JStr(<<"a", "b">>), Undefined, Undefined, Undefined, Undefined, Undefined),
   Obj(TranscriptType, JStr(<<"a", "b">>), Undefined, JBool(FALSE), Undefined, Undefined, JNum(1)),
   Obj(TranscriptType, Undefined, JStr(<<"c", "d">>), JBool(TRUE), Undefined, Undefined, Undefined),
   Obj(TranscriptType, JStr(<<" ">>), Undefined, Undefined, Undefined, Undefined, JStr(<<"a">>))}

StatusDocs ==
  {Obj(StatusType, Undefined, Undefined, Undefined, sl[1], sl[2], Undefined) :
     sl \in {<<JStr(S_stopped), Undefined>>,
             <<JStr(S_stopped), JStr(<<"k", "o">>)>>,
             <<JStr(S_started), Undefined>>}}

UnknownDocs ==
  {Obj(JStr(S_other), JStr(<<"a", "b">>), Undefined, Undefined, Undefined, Undefined, Undefined),
   Obj(JStr(S_other), JStr(<<" ">>), Undefined, Undefined, Undefined, Undefined, Undefined),
   Obj(JStr(S_other), Undefined, Undefined, Undefined, Undefined, Undefined, Undefined),
   Obj(Undefined, JStr(<<"a", "b">>), Undefined, Undefined, Undefined, Undefined, Undefined)}

\* Documents whose fields have the wrong type, and documents that are no object.
IllTypedDocs ==
  {Obj(StreamType, JNum(5), Undefined, JBool(TRUE), Undefined, Undefined, Undefined),
   Obj(TranslationType, Undefined, JNum(5), Undefined, Undefined, Undefined, Undefined),
   NonObj("null", 0),
   NonObj("number", 5)}

JsonDocs ==
  StreamDocs \cup TranslationDocs \cup TranscriptDocs \cup StatusDocs
  \cup UnknownDocs \cup IllTypedDocs

\* The wire text of each document.
WireText == [d \in JsonDocs |-> Stringify(d)]

\* Texts that are not JSON.
PlainTexts == {<<>>, <<" ">>, <<"a", "b">>}

\* A payload is a sequence of units: the UTF-8 encoding of one character
\* (written as the character), or the byte 0xFF, which no UTF-8 text holds.
InvalidByte == "xFF"

Payloads ==
  {WireText[d] : d \in JsonDocs} \cup PlainTexts \cup {<<"a", InvalidByte>>}

\* new TextDecoder().decode(payload) (lines 471-472): the decoder is not
\* fatal, it replaces a malformed byte by U+FFFD and never throws.
Decode(payload) ==
  [i \in 1..Len(payload) |-> IF payload[i] = InvalidByte THEN "U+FFFD" ELSE payload[i]]

\* The argument e of handleDataReceived (line 464).  An event object carries
\* the bytes in its payload field; the byte array itself, which is what a
\* Room of livekit-client hands its DataReceived listeners as first argument
\* (payload, participant, kind, topic), has no payload field.
EventObject(payload) == [bytes |-> payload, payloadField |-> TRUE]
ByteArray(payload) == [bytes |-> payload, payloadField |-> FALSE]

\* decoder.decode(e.payload) (lines 471-472): e.payload of a byte array is
\* undefined, and decode(undefined) is the empty text.
DecodePayload(e) == IF e.payloadField THEN Decode(e.bytes) ELSE <<>>

\* The document each wire text stands for.
ParseTable ==
  [m \in {WireText[d] : d \in JsonDocs} |-> CHOOSE d \in JsonDocs : WireText[d] = m]

\* JSON.parse(message) (line 484): the document whose text this is, or a
\* SyntaxError (ok = FALSE).
JSONParse(message) ==
  IF message \in DOMAIN ParseTable
  THEN [ok |-> TRUE, doc |-> ParseTable[message]]
  ELSE [ok |-> FALSE, doc |-> NonObj("null", 0)]

----------------------------------------------------------------------------
(* The data handlers.  A handler works on the caption state                *)
(*   st = [subtitle, partialSubtitle, finalSubtitle, debugEvents]          *)
(* and yields the state its setState calls leave, with threw = TRUE when   *)
(* it ends by an exception.                                                *)

\* Program constant: the event history keeps the 20 newest events (line 503).
MaxDebugEvents == 20

Returns(st) == [st |-> st, threw |-> FALSE]
Throws(st) == [st |-> st, threw |-> TRUE]

\* handleTranslationStream dropping an event once the history holds more
\* than two entries: C22 tells it from the handler.
handleTranslationStreamByHistory(st, data) ==
  LET text == OrElse(data.text, JStr(<<>>))
      isFinal == OrElse(data.is_final, JBool(FALSE))
  IN  IF text.t # "string" THEN Throws(st)
      ELSE IF ~Truthy(text) \/ Len(Trim(text.s)) = 0 THEN Returns(st)
      ELSE IF Len(Trim(text.s)) = 1 /\ ~TestPunctuation(Trim(text.s)) THEN Returns(st)
      ELSE IF Len(st.debugEvents) > 2 THEN Returns(st)
      ELSE IF Truthy(isFinal)
      THEN Returns([st EXCEPT !.finalSubtitle = text.s,
                              !.partialSubtitle = <<>>,
                              !.subtitle = text.s])
      ELSE Returns([st EXCEPT !.partialSubtitle = text.s,
                              !.subtitle = text.s \o PendingIndicator])

\* handleTranslationStream without the pending indicator on a partial text:
\* C3 tells it from the handler.
handleTranslationStreamBare(st, data) ==
  LET text == OrElse(data.text, JStr(<<>>))
      isFinal == OrElse(data.is_final, JBool(FALSE))
  IN  IF text.t # "string" THEN Throws(st)
      ELSE IF ~Truthy(text) \/ Len(Trim(text.s)) = 0 THEN Returns(st)
      ELSE IF Len(Trim(text.s)) = 1 /\ ~TestPunctuation(Trim(text.s)) THEN Returns(st)
      ELSE IF Truthy(isFinal)
      THEN Returns([st EXCEPT !.finalSubtitle = text.s,
                              !.partialSubtitle = <<>>,
                              !.subtitle = text.s])
      ELSE Returns([st EXCEPT !.partialSubtitle = text.s,
                              !.subtitle = text.s])

\* handleTranslationStream without the filter of empty and blank texts: C5
\* tells it from the handler.
handleTranslationStreamUnfiltered(st, data) ==
  LET text == OrElse(data.text, JStr(<<>>))
      isFinal == OrElse(data.is_final, JBool(FALSE))
  IN  IF text.t # "string" THEN Throws(st)
      ELSE IF Len(Trim(text.s)) = 1 /\ ~TestPunctuation(Trim(text.s)) THEN Returns(st)
      ELSE IF Truthy(isFinal)
      THEN Returns([st EXCEPT !.finalSubtitle = text.s,
                              !.partialSubtitle = <<>>,
                              !.subtitle = text.s])
      ELSE Returns([st EXCEPT !.partialSubtitle = text.s,
                              !.subtitle = text.s \o PendingIndicator])

\* handleTranslationStream showing a partial text after the final one: C8
\* tells it from the handler.
handleTranslationStreamAppending(st, data) ==
  LET text == OrElse(data.text, JStr(<<>>))
      isFinal == OrElse(data.is_final, JBool(FALSE))
  IN  IF text.t # "string" THEN Throws(st)
      ELSE IF ~Truthy(text) \/ Len(Trim(text.s)) = 0 THEN Returns(st)
      ELSE IF Len(Trim(text.s)) = 1 /\ ~TestPunctuation(Trim(text.s)) THEN Returns(st)
      ELSE IF Truthy(isFinal)
      THEN Returns([st EXCEPT !.finalSubtitle = text.s,
                              !.partialSubtitle = <<>>,
                              !.subtitle = text.s])
      ELSE Returns([st EXCEPT !.partialSubtitle = text.s,
                              !.subtitle = st.finalSubtitle \o text.s \o PendingIndicator])

\* handleTranslationStream (lines 546-583)
handleTranslationStream(st, data) ==
  LET text == OrElse(data.text, JStr(<<>>))
      isFinal == OrElse(data.is_final, JBool(FALSE))
  IN  IF text.t # "string" THEN Throws(st)   \* text.substring is no function
      ELSE IF ~Truthy(text) \/ Len(Trim(text.s)) = 0 THEN Returns(st)
      ELSE IF Len(Trim(text.s)) = 1 /\ ~TestPunctuation(Trim(text.s)) THEN Returns(st)
      ELSE IF Truthy(isFinal)
      THEN Returns([st EXCEPT !.finalSubtitle = text.s,
                              !.partialSubtitle = <<>>,
                              !.subtitle = text.s])
      ELSE Returns([st EXCEPT !.partialSubtitle = text.s,
                              !.subtitle = text.s \o PendingIndicator])

\* handleTranslation leaving the partial text in place: C1 tells it from the
\* handler.
handleTranslationKeepingPartial(st, data) ==
  LET text == OrElse(OrElse(data.text, data.content), JStr(<<>>))
  IN  IF text.t # "string" THEN Throws(st)
      ELSE IF Truthy(text) /\ Len(Trim(text.s)) > 0
      THEN Returns([st EXCEPT !.finalSubtitle = text.s,
                              !.subtitle = text.s])
      ELSE Returns(st)

\* handleTranslation reading the text field only: C9 tells it from the
\* handler.
handleTranslationTextOnly(st, data) ==
  LET text == OrElse(data.text, JStr(<<>>))
  IN  IF text.t # "string" THEN Throws(st)
      ELSE IF Truthy(text) /\ Len(Trim(text.s)) > 0
      THEN Returns([st EXCEPT !.finalSubtitle = text.s,
                              !.partialSubtitle = <<>>,
                              !.subtitle = text.s])
      ELSE Returns(st)

\* handleTranslation (lines 586-600)
handleTranslation(st, data) ==
  LET text == OrElse(OrElse(data.text, data.content), JStr(<<>>))
  IN  IF text.t # "string" THEN Throws(st)
      ELSE IF Truthy(text) /\ Len(Trim(text.s)) > 0
      THEN Returns([st EXCEPT !.finalSubtitle = text.s,
                              !.partialSubtitle = <<>>,
                              !.subtitle = text.s])
      ELSE Returns(st)

\* handleTranscript with the display of line 619 switched on: C10 tells it
\* from the handler.
handleTranscriptShown(st, data) ==
  LET text == OrElse(OrElse(data.text, data.content), JStr(<<>>))
  IN  IF text.t # "string" THEN Throws(st)
      ELSE IF Truthy(text) /\ Len(Trim(text.s)) > 0
      THEN Returns([st EXCEPT !.subtitle = <<"[", "U+8F6C", "U+5199", "]", " ">> \o text.s])
      ELSE Returns(st)

\* handleTranscript (lines 603-621)
handleTranscript(st, data) ==
  LET text == OrElse(OrElse(data.text, data.content), JStr(<<>>))
  IN  IF text.t # "string" THEN Throws(st) ELSE Returns(st)

\* handleTranslationStatus without the reset of lines 637-640: C7 tells it
\* from the handler.
handleTranslationStatusKeeping(st, data) ==
  LET status == OrElse(data.status, JStr(<<>>))
      language == OrElse(data.language, JStr(<<>>))
      statusMessage ==
        StatusPrefix \o status.s
        \o (IF Truthy(language) THEN <<" ", "(">> \o language.s \o <<")">> ELSE <<>>)
  IN  Returns([st EXCEPT !.subtitle = statusMessage])

\* handleTranslationStatus (lines 624-641); status and language are strings
\* or absent in the inputs.
handleTranslationStatus(st, data) ==
  LET status == OrElse(data.status, JStr(<<>>))
      language == OrElse(data.language, JStr(<<>>))
      statusMessage ==
        StatusPrefix \o status.s
        \o (IF Truthy(language) THEN <<" ", "(">> \o language.s \o <<")">> ELSE <<>>)
      st1 == [st EXCEPT !.subtitle = statusMessage]
  IN  IF status = JStr(S_stopped)
      THEN Returns([st1 EXCEPT !.partialSubtitle = <<>>, !.finalSubtitle = <<>>])
      ELSE Returns(st1)

\* The else branch of handleDataReceived for an unknown type (lines 524-532).
handleUnknown(st, data, message) ==
  IF Truthy(data.text) /\ Len(Trim(data.text.s)) > 0
  THEN Returns([st EXCEPT !.subtitle = data.text.s])
  ELSE Returns([st EXCEPT !.subtitle = message])

\* The catch branch without the trim: C12 tells it from the code.
handlePlainTextUntrimmed(st, message) ==
  IF message # <<>>
  THEN [st EXCEPT !.subtitle = message]
  ELSE st

\* The catch branch of handleDataReceived (lines 533-539).
handlePlainText(st, message) ==
  IF message # <<>> /\ Len(Trim(message)) > 0
  THEN [st EXCEPT !.subtitle = message]
  ELSE st

\* eventInfo (lines 487-497): of the fields copied from the payload the
\* history keeps here the type and is_final; received_at is the arrival time.
EventInfo(data, now) ==
  [type |-> data.type, is_final |-> data.is_final, received_at |-> now]

\* A history that adds at the end and drops from the front: C13 tells it
\* from the code.
InsertDebugEventAtEnd(prev, eventInfo) ==
  LET all == prev \o <<eventInfo>>
  IN  SubSeq(all, IF Len(all) < MaxDebugEvents THEN 1 ELSE Len(all) - MaxDebugEvents + 1,
             Len(all))

\* setDebugEvents(prev => [eventInfo, ...prev].slice(0, 20)) (lines 502-505)
InsertDebugEvent(prev, eventInfo) ==
  LET all == <<eventInfo>> \o prev
  IN  SubSeq(all, 1, IF Len(all) < MaxDebugEvents THEN Len(all) ELSE MaxDebugEvents)

\* The type dispatch of handleDataReceived (lines 508-532).
Dispatch(st, data, message) ==
  IF data.type = StreamType THEN handleTranslationStream(st, data)
  ELSE IF data.type = TranslationType THEN handleTranslation(st, data)
  ELSE IF data.type = TranscriptType THEN handleTranscript(st, data)
  ELSE IF data.type = StatusType THEN handleTranslationStatus(st, data)
  ELSE handleUnknown(st, data, message)

\* handleDataReceived (lines 464-543) called with e at time now.
handleDataReceived(st, e, now) ==
  LET message == DecodePayload(e)
      parsed == JSONParse(message)
      data == parsed.doc
  IN  IF ~parsed.ok THEN handlePlainText(st, message)
      \* jsonData.type of null is a TypeError
      ELSE IF data.k = "null" THEN handlePlainText(st, message)
      \* jsonData.text?.substring of a value that is no string is a TypeError
      ELSE IF ~Nullish(data.text) /\ data.text.t # "string"
      THEN handlePlainText(st, message)
      ELSE LET st1 == [st EXCEPT !.debugEvents =
                                   InsertDebugEvent(st.debugEvents, EventInfo(data, now))]
               r == Dispatch(st1, data, message)
           IN  IF r.threw THEN handlePlainText(r.st, message) ELSE r.st

\* How the try block of handleDataReceived (lines 483-532) ends on e:
\* in the branch of one event type, or by the exception of JSON.parse, of
\* jsonData.type on null, or of substring on a text that is no string.
TryBlock(e) ==
  LET message == DecodePayload(e)
      parsed == JSONParse(message)
      data == parsed.doc
      st0 == [subtitle |-> <<>>, partialSubtitle |-> <<>>, finalSubtitle |-> <<>>,
              debugEvents |-> <<>>]
  IN  IF ~parsed.ok THEN "SyntaxError"
      ELSE IF data.k = "null" THEN "TypeError"
      ELSE IF ~Nullish(data.text) /\ data.text.t # "string" THEN "TypeError"
      ELSE IF Dispatch(st0, data, message).threw THEN "TypeError"
      ELSE IF data.type = StreamType THEN "translation_stream"
      ELSE IF data.type = TranslationType THEN "translation"
      ELSE IF data.type = TranscriptType THEN "transcript"
      ELSE IF data.type = StatusType THEN "translation_status"
      ELSE "unknown"

\* The try block without its catch: C21 tells it from the handler.
ClassifyUncaught(e) == TryBlock(e)

\* What handleDataReceived takes e for: the catch of lines 533-539
\* treats whatever threw as plain text, and nothing leaves the handler
\* (lines 540-542).
Classify(e) ==
  IF TryBlock(e) \in {"SyntaxError", "TypeError"} THEN "plain_text"
  ELSE TryBlock(e)

\* n registered listeners called with e: the handler runs n times.
RECURSIVE DeliverTo(_, _, _, _)
DeliverTo(n, st, e, now) ==
  IF n = 0 THEN st ELSE DeliverTo(n - 1, handleDataReceived(st, e, now), e, now)

----------------------------------------------------------------------------
(* The component and its environment *)

\* Bounds of the model.
MaxPending == 1       \* credential requests, publishData calls and timers pending
MaxSent == 3          \* packets put on the data channel of one Room
MaxMsgs == 1          \* payloads one Room delivers, specification Spec
MaxCaptionMsgs == 2   \* payloads one Room delivers, specification SpecCaption
MaxTraceMsgs == 25    \* payloads one Room delivers, specification SpecTrace
MaxConcatMsgs == 3    \* payloads one Room delivers, specification SpecConcat
MaxTrackEvents == 3    \* track events of one Room, specification SpecAudio
MaxControlPending == 2 \* calls and timers pending, specification SpecControl
MaxControlSent == 4    \* packets on the data channel, specification SpecControl

\* data.token and data.livekit_url of the token service's answer for a room
TokenOf(r) == IF r = "Pryme-Korean" THEN "token-Pryme-Korean" ELSE "token-Pryme-Japanese"
ServerUrl == "wss://livekit"

\* Identities of remote participants.
Translator42 == <<"t", "r", "a", "n", "s", "l", "a", "t", "o", "r", "-", "4", "2">>
Listener7 == <<"l", "i", "s", "t", "e", "n", "e", "r", "-", "7">>
Agent1 == <<"a", "g", "e", "n", "t", "-", "1">>
UpperAgent2 == <<"A", "g", "e", "n", "t", "-", "2">>

S_translator == <<"t", "r", "a", "n", "s", "l", "a", "t", "o", "r">>
S_agent == <<"a", "g", "e", "n", "t">>

\* The test for "translator" alone: C14 tells it from the test of line 378.
IsTranslatorIdentity(identity) == Includes(identity, S_translator)

\* The test of line 378.
IsAgentIdentity(identity) == Includes(identity, S_translator) \/ Includes(identity, S_agent)

\* The remote participants of the inputs.
Identities == {Translator42, Listener7, Agent1, UpperAgent2}

\* A track is named by its participant and its kind.  listeners: the
\* trackSubscribed/trackUnsubscribed listener pairs registered on each
\* participant; subscribed: the tracks subscribed; sinks: the audio elements
\* attached, each under the name of its track; ref: the track whose element
\* audioRef.current holds (<<>> for null); events: track events so far.
NoAudio ==
  [listeners |-> [id \in Identities |-> 0], subscribed |-> {}, sinks |-> <<>>,
   ref |-> <<>>, events |-> 0]

\* handleTrackSubscribed (lines 412-455): track.attach() makes a new audio
\* element for an audio track, and audioRef.current is set to it.
handleTrackSubscribed(a, track) ==
  IF track[2] = "audio"
  THEN [a EXCEPT !.sinks = Append(@, track), !.ref = track]
  ELSE a

\* handleTrackUnsubscribed (lines 458-461): track.detach() detaches every
\* element of the track; audioRef.current is not touched.
handleTrackUnsubscribed(a, track) ==
  [a EXCEPT !.sinks = SelectSeq(@, LAMBDA s : s # track)]

\* The part of handleParticipantConnected on tracks (lines 381-407), run on
\* the participants ps in order: a matching participant gets one more pair
\* of track listeners and its subscribed tracks are handed to
\* handleTrackSubscribed.
RECURSIVE handleParticipantConnectedTracks(_, _)
handleParticipantConnectedTracks(a, ps) ==
  IF ps = <<>> THEN a
  ELSE LET p == Head(ps)
           a1 == [a EXCEPT !.listeners[p] = @ + 1]
           a2 == IF <<p, "audio">> \in a.subscribed
                 THEN handleTrackSubscribed(a1, <<p, "audio">>)
                 ELSE a1
       IN  handleParticipantConnectedTracks(IF IsAgentIdentity(p) THEN a2 ELSE a, Tail(ps))

\* A participant has left: its object with its listeners is gone, and its
\* tracks were unsubscribed on the way, which detached their elements, those
\* of the audio renderer included.
Departed(a, identity) ==
  [a EXCEPT !.listeners[identity] = 0,
            !.subscribed = {t \in @ : t[1] # identity},
            !.sinks = SelectSeq(@, LAMBDA s : s[1] # identity)]

\* The Room of the mounted <LiveKitRoom>: its connection state, the remote
\* participants in join order, and the number of listeners registered for
\* each event.  mounted = FALSE when no <LiveKitRoom> is rendered.
NoRoom ==
  [mounted |-> FALSE, name |-> "null", state |-> "disconnected", participants |-> <<>>,
   onParticipantConnected |-> 0, onDataReceived |-> 0, onConnectionStateChanged |-> 0]

CaptionState ==
  [subtitle |-> subtitle, partialSubtitle |-> partialSubtitle,
   finalSubtitle |-> finalSubtitle, debugEvents |-> debugEvents]

Captions == <<subtitle, partialSubtitle, finalSubtitle>>

Ran(op, payload, result) ==
  [op |-> op, payload |-> payload, result |-> result, before |-> Captions]

Init ==
  /\ selectedRoom = "null"
  /\ token = ""
  /\ liveKitUrl = ""
  /\ isConnected = FALSE
  /\ isTranslating = FALSE
  /\ subtitle = <<>>
  /\ partialSubtitle = <<>>
  /\ finalSubtitle = <<>>
  /\ agentParticipant = {}
  /\ debugEvents = <<>>
  /\ roomRef = FALSE
  /\ room = NoRoom
  /\ fetches = <<>>
  /\ sends = <<>>
  /\ sent = <<>>
  /\ timers = [connected |-> 0, test |-> <<>>]
  /\ clock = 0
  /\ audio = NoAudio
  /\ last = Ran("init", <<>>, "")

\* The asynchronous work outstanding: credential requests, publishData
\* calls and timers.
Pending == Len(fetches) + Len(sends) + timers.connected + Len(timers.test)

RemoveAt(seq, i) == SubSeq(seq, 1, i - 1) \o SubSeq(seq, i + 1, Len(seq))

\* joinRoom up to await fetch (lines 132-150); the room list is shown while
\* no room is selected (line 987).
JoinRoom(r) ==
  /\ selectedRoom = "null"
  /\ Pending < MaxPending
  /\ fetches' = Append(fetches, r)
  /\ last' = Ran("joinRoom", <<>>, "fetching")
  /\ UNCHANGED <<audio, selectedRoom, token, liveKitUrl, isConnected, isTranslating, subtitle,
                 partialSubtitle, finalSubtitle, agentParticipant, debugEvents, roomRef,
                 room, sends, sent, timers, clock>>

\* joinRoom after a successful answer (lines 156-165)
JoinRoomSucceeds(i) ==
  /\ i \in 1..Len(fetches)
  /\ fetches' = RemoveAt(fetches, i)
  /\ token' = TokenOf(fetches[i])
  /\ liveKitUrl' = ServerUrl
  /\ selectedRoom' = fetches[i]
  /\ last' = Ran("joinRoom", <<>>, "ok")
  /\ UNCHANGED <<audio, isConnected, isTranslating, subtitle, partialSubtitle, finalSubtitle,
                 agentParticipant, debugEvents, roomRef, room, sends, sent, timers,
                 clock>>

\* A failure that selects the room all the same: C20 tells it from the code.
JoinRoomFailsSelecting(i) ==
  /\ i \in 1..Len(fetches)
  /\ fetches' = RemoveAt(fetches, i)
  /\ selectedRoom' = fetches[i]
  /\ last' = Ran("joinRoom", <<>>, "error")
  /\ UNCHANGED <<audio, token, liveKitUrl, isConnected, isTranslating, subtitle,
                 partialSubtitle, finalSubtitle, agentParticipant, debugEvents, roomRef,
                 room, sends, sent, timers, clock>>

\* joinRoom when fetch fails, the status is not ok, or the body has an error
\* field (lines 152-160, 167-170)
JoinRoomFails(i) ==
  /\ i \in 1..Len(fetches)
  /\ fetches' = RemoveAt(fetches, i)
  /\ last' = Ran("joinRoom", <<>>, "error")
  /\ UNCHANGED <<audio, selectedRoom, token, liveKitUrl, isConnected, isTranslating, subtitle,
                 partialSubtitle, finalSubtitle, agentParticipant, debugEvents, roomRef,
                 room, sends, sent, timers, clock>>

\* handleParticipantConnected with the test of line 378 extended by "and no
\* agent is tracked yet": the first match is kept.
RECURSIVE handleParticipantConnectedKeepingFirst(_, _)
handleParticipantConnectedKeepingFirst(agent, ps) ==
  IF ps = <<>> THEN agent
  ELSE handleParticipantConnectedKeepingFirst(
         IF IsAgentIdentity(Head(ps)) /\ agent = {} THEN {Head(ps)} ELSE agent,
         Tail(ps))

\* handleParticipantConnected (lines 371-409): the agent after the handler
\* has seen the participants ps in order.
RECURSIVE handleParticipantConnected(_, _)
handleParticipantConnected(agent, ps) ==
  IF ps = <<>> THEN agent
  ELSE handleParticipantConnected(IF IsAgentIdentity(Head(ps)) THEN {Head(ps)} ELSE agent,
                                  Tail(ps))

\* <LiveKitRoom> is rendered once a token is set (lines 1371-1392) and the
\* effect of LiveKitRoomComponents runs on the Room it creates (lines 14-82).
\* The Room starts connecting; it has no participants yet, has sent nothing
\* and has delivered nothing.
MountLiveKitRoom ==
  /\ token # ""
  /\ selectedRoom # "null"
  /\ ~room.mounted
  /\ room' = [mounted |-> TRUE, name |-> selectedRoom, state |-> "connecting",
              participants |-> <<>>, onParticipantConnected |-> 1,
              onDataReceived |-> 1, onConnectionStateChanged |-> 1]
  /\ roomRef' = TRUE
  /\ isConnected' = TRUE
  /\ last' = Ran("mount", <<>>, "")
  /\ UNCHANGED <<audio, selectedRoom, token, liveKitUrl, isTranslating, subtitle,
                 partialSubtitle, finalSubtitle, agentParticipant, debugEvents, fetches,
                 sends, sent, timers, clock>>

\* The transport reports "connected": onConnected={handleRoomConnected}
\* (line 1379) only starts the 100 ms timer (lines 299-301, 367).  ps are the
\* participants already in the room.
TransportConnected(ps) ==
  /\ room.mounted
  /\ room.state = "connecting"
  /\ Pending < MaxPending
  /\ room' = [room EXCEPT !.state = "connected", !.participants = ps]
  /\ timers' = [timers EXCEPT !.connected = @ + 1]
  /\ last' = Ran("onConnected", <<>>, "")
  /\ UNCHANGED <<audio, selectedRoom, token, liveKitUrl, isConnected, isTranslating, subtitle,
                 partialSubtitle, finalSubtitle, agentParticipant, debugEvents, roomRef,
                 fetches, sends, sent, clock>>

\* The timer callback without the replay of the participants present: C27
\* tells it from the code.
handleRoomConnectedNoReplay ==
  /\ timers.connected > 0
  /\ timers' = [timers EXCEPT !.connected = @ - 1]
  /\ IF ~roomRef
     THEN /\ last' = Ran("handleRoomConnected", <<>>, "no room")
          /\ UNCHANGED <<isConnected, room, agentParticipant, audio>>
     ELSE /\ isConnected' = TRUE
          /\ room' = [room EXCEPT !.onParticipantConnected = @ + 1,
                                  !.onDataReceived = @ + 1,
                                  !.onConnectionStateChanged = @ + 1]
          /\ agentParticipant' = agentParticipant
          /\ audio' = audio
          /\ last' = Ran("handleRoomConnected", <<>>, "listening")
  /\ UNCHANGED <<selectedRoom, token, liveKitUrl, isTranslating, subtitle,
                 partialSubtitle, finalSubtitle, debugEvents, roomRef, fetches,
                 sends, sent, clock>>

\* The timer callback of handleRoomConnected (lines 301-367).  roomRef holds
\* the mounted Room or null.
handleRoomConnected ==
  /\ timers.connected > 0
  /\ timers' = [timers EXCEPT !.connected = @ - 1]
  /\ IF ~roomRef
     THEN /\ last' = Ran("handleRoomConnected", <<>>, "no room")
          /\ UNCHANGED <<isConnected, room, agentParticipant, audio>>
     ELSE /\ isConnected' = TRUE
          /\ room' = [room EXCEPT !.onParticipantConnected = @ + 1,
                                  !.onDataReceived = @ + 1,
                                  !.onConnectionStateChanged = @ + 1]
          /\ agentParticipant' = handleParticipantConnected(agentParticipant, room.participants)
          /\ audio' = handleParticipantConnectedTracks(audio, room.participants)
          /\ last' = Ran("handleRoomConnected", <<>>, "listening")
  /\ UNCHANGED <<selectedRoom, token, liveKitUrl, isTranslating, subtitle,
                 partialSubtitle, finalSubtitle, debugEvents, roomRef, fetches,
                 sends, sent, clock>>

InRoom(identity) == \E i \in 1..Len(room.participants) : room.participants[i] = identity

\* RoomEvent.ParticipantConnected: every registered listener runs
\* handleParticipantConnected on the participant (lines 66, 336).
ParticipantConnected(identity) ==
  /\ room.state = "connected"
  /\ ~InRoom(identity)
  /\ room' = [room EXCEPT !.participants = Append(@, identity)]
  /\ agentParticipant' =
       IF room.onParticipantConnected > 0
       THEN handleParticipantConnected(agentParticipant, <<identity>>)
       ELSE agentParticipant
  /\ last' = Ran("participantConnected", identity, "")
  /\ UNCHANGED <<selectedRoom, token, liveKitUrl, isConnected, isTranslating, subtitle,
                 partialSubtitle, finalSubtitle, debugEvents, roomRef, fetches,
                 sends, sent, timers, clock>>
  /\ audio' = handleParticipantConnectedTracks(
                audio, [i \in 1..room.onParticipantConnected |-> identity])

\* A participant leaves: the component registers no listener for it.
ParticipantDisconnected(identity) ==
  /\ room.state = "connected"
  /\ InRoom(identity)
  /\ room' = [room EXCEPT !.participants =
                SelectSeq(@, LAMBDA p : p # identity)]
  /\ last' = Ran("participantDisconnected", identity, "")
  /\ UNCHANGED <<selectedRoom, token, liveKitUrl, isConnected, isTranslating, subtitle,
                 partialSubtitle, finalSubtitle, agentParticipant, debugEvents, roomRef,
                 fetches, sends, sent, timers, clock>>
  /\ audio' = Departed(audio, identity)

\* The listeners registered for DataReceived (lines 73, 343) are called with
\* e: each runs handleDataReceived on it.  op names the step in the record
\* of the last step.
Deliver(e, op, maxMsgs) ==
  /\ room.state = "connected"
  /\ clock < maxMsgs
  /\ clock' = clock + 1
  /\ LET st == DeliverTo(room.onDataReceived, CaptionState, e, clock + 1)
     IN  /\ subtitle' = st.subtitle
         /\ partialSubtitle' = st.partialSubtitle
         /\ finalSubtitle' = st.finalSubtitle
         /\ debugEvents' = st.debugEvents
  /\ last' = Ran(op, e.bytes, Classify(e))
  /\ UNCHANGED <<audio, selectedRoom, token, liveKitUrl, isConnected, isTranslating,
                 agentParticipant, roomRef, room, fetches, sends, sent, timers>>

\* RoomEvent.DataReceived: the Room calls every registered listener with the
\* byte array as first argument (lines 73, 343), so the handler reads
\* e.payload of a byte array.
DataReceived(payload, maxMsgs) == Deliver(ByteArray(payload), "dataReceived", maxMsgs)

\* handleDataReceived run by the registered listeners on an event object
\* that holds the bytes in its payload field, the argument its body reads
\* (lines 468, 472).
EventObjectReceived(payload, maxMsgs) ==
  Deliver(EventObject(payload), "handleDataReceived", maxMsgs)

\* A disconnect signal that leaves the agent in place: C19 tells it from
\* the code.
TransportDisconnectedKeepingAgent ==
  /\ room.mounted
  /\ room.state \in {"connecting", "connected"}
  /\ room' = [room EXCEPT !.state = "disconnected", !.participants = <<>>]
  /\ isConnected' = FALSE
  /\ last' = Ran("onDisconnected", <<>>, "")
  /\ UNCHANGED <<selectedRoom, token, liveKitUrl, isTranslating, subtitle,
                 partialSubtitle, finalSubtitle, debugEvents, roomRef, fetches,
                 sends, sent, timers, clock, agentParticipant>>
  /\ audio' = [NoAudio EXCEPT !.ref = audio.ref, !.events = audio.events]

\* The transport loses or fails to make the connection: the listeners of
\* ConnectionStateChanged and onDisconnected run (lines 76-82, 346-352,
\* 1380-1384).
TransportDisconnected ==
  /\ room.mounted
  /\ room.state \in {"connecting", "connected"}
  /\ room' = [room EXCEPT !.state = "disconnected", !.participants = <<>>]
  /\ isConnected' = FALSE
  /\ agentParticipant' = {}
  /\ last' = Ran("onDisconnected", <<>>, "")
  /\ UNCHANGED <<selectedRoom, token, liveKitUrl, isTranslating, subtitle,
                 partialSubtitle, finalSubtitle, debugEvents, roomRef, fetches,
                 sends, sent, timers, clock>>
  /\ audio' = [NoAudio EXCEPT !.ref = audio.ref, !.events = audio.events]

\* A control message without the room name: C18 tells it from the code.
ControlMessageNoRoom(action) ==
  [type |-> S_translation_control, action |-> action, room |-> ""]

\* controlMessage (lines 207-212, 245-250); its timestamp is the wall clock
\* time, which the model does not keep.
ControlMessage(action) ==
  [type |-> S_translation_control, action |-> action, room |-> room.name]

\* toggleTranslation up to await publishData (lines 174-218, 242-255).
\* microphone: the local microphone track is published and not muted.
\* publishData puts the packet on the channel (flushed = TRUE) or rejects;
\* it rejects when the Room is not connected.  The call keeps the Room it
\* read from roomRef (live: that Room is still the mounted one).
toggleTranslationWithin(microphone, flushed, maxPending, maxSent) ==
  /\ Pending < maxPending
  /\ Len(sent) + 2 <= maxSent
  /\ IF ~isConnected \/ ~roomRef
     THEN /\ microphone /\ flushed
          /\ last' = Ran("toggleTranslation", <<>>, "not connected")
          /\ UNCHANGED <<sends, sent>>
     ELSE IF ~microphone
     THEN /\ flushed
          /\ last' = Ran("toggleTranslation", <<>>, "no microphone")
          /\ UNCHANGED <<sends, sent>>
     ELSE LET action == IF ~isTranslating THEN "start" ELSE "stop"
          IN  /\ flushed => room.state = "connected"
              /\ sends' = Append(sends, [action |-> action, live |-> TRUE,
                                         flushed |-> flushed])
              /\ sent' = IF flushed THEN Append(sent, ControlMessage(action)) ELSE sent
              /\ last' = Ran("toggleTranslation", <<>>, action)
  /\ UNCHANGED <<audio, selectedRoom, token, liveKitUrl, isConnected, isTranslating, subtitle,
                 partialSubtitle, finalSubtitle, agentParticipant, debugEvents, roomRef,
                 room, fetches, timers, clock>>

\* toggleTranslation within the bounds of the full specification.
toggleTranslation(microphone, flushed) ==
  toggleTranslationWithin(microphone, flushed, MaxPending, MaxSent)

\* A failed send that is taken for a lost connection: C31 tells it from the
\* code.
PublishSettlesDisconnecting ==
  /\ sends # <<>>
  /\ sends' = Tail(sends)
  /\ LET send == Head(sends)
     IN  IF ~send.flushed
         THEN /\ isTranslating' = FALSE
              /\ subtitle' = FailedNotice
              /\ timers' = timers
              /\ isConnected' = FALSE
              /\ agentParticipant' = {}
              /\ last' = Ran("publishData", <<>>, "rejected")
         ELSE IF send.action = "start"
         THEN /\ isTranslating' = TRUE
              /\ subtitle' = StartedNotice
              /\ timers' = [timers EXCEPT !.test = Append(@, send.live)]
              /\ UNCHANGED <<isConnected, agentParticipant>>
              /\ last' = Ran("publishData", <<>>, "start")
         ELSE /\ isTranslating' = FALSE
              /\ subtitle' = StoppedNotice
              /\ timers' = timers
              /\ UNCHANGED <<isConnected, agentParticipant>>
              /\ last' = Ran("publishData", <<>>, "stop")
  /\ UNCHANGED <<audio, selectedRoom, token, liveKitUrl, partialSubtitle,
                 finalSubtitle, debugEvents, roomRef, room, fetches,
                 sent, clock>>

\* toggleTranslation after await publishData (lines 220-240, 257-259), or its
\* catch block when publishData rejected (lines 261-275).
PublishSettles ==
  /\ sends # <<>>
  /\ sends' = Tail(sends)
  /\ LET send == Head(sends)
     IN  IF ~send.flushed
         THEN /\ isTranslating' = FALSE
              /\ subtitle' = FailedNotice
              /\ timers' = timers
              /\ last' = Ran("publishData", <<>>, "rejected")
         ELSE IF send.action = "start"
         THEN /\ isTranslating' = TRUE
              /\ subtitle' = StartedNotice
              /\ timers' = [timers EXCEPT !.test = Append(@, send.live)]
              /\ last' = Ran("publishData", <<>>, "start")
         ELSE /\ isTranslating' = FALSE
              /\ subtitle' = StoppedNotice
              /\ timers' = timers
              /\ last' = Ran("publishData", <<>>, "stop")
  /\ UNCHANGED <<audio, selectedRoom, token, liveKitUrl, isConnected, partialSubtitle,
                 finalSubtitle, agentParticipant, debugEvents, roomRef, room, fetches,
                 sent, clock>>

\* testMessage (lines 227-233)
TestMessage ==
  [type |-> S_translation_stream, action |-> "", room |-> ""]

\* The 2 s timer of toggleTranslation (lines 225-240): publishes a test
\* translation_stream message on the Room that sent "start"; a failure is
\* only logged.
TestTimer ==
  /\ timers.test # <<>>
  /\ timers' = [timers EXCEPT !.test = Tail(@)]
  /\ IF Head(timers.test) /\ room.state = "connected"
     THEN /\ sent' = Append(sent, TestMessage)
          /\ last' = Ran("testTimer", <<>>, "published")
     ELSE /\ sent' = sent
          /\ last' = Ran("testTimer", <<>>, "rejected")
  /\ UNCHANGED <<audio, selectedRoom, token, liveKitUrl, isConnected, isTranslating, subtitle,
                 partialSubtitle, finalSubtitle, agentParticipant, debugEvents, roomRef,
                 room, fetches, sends, clock>>

\* A call or timer that holds a Room holds a released one from now on.
Released(calls) == [i \in 1..Len(calls) |-> [calls[i] EXCEPT !.live = FALSE]]

\* disconnect leaving the translating flag as it is: C16 tells it from the
\* code.
disconnectKeepingTranslating ==
  /\ roomRef' = FALSE
  /\ selectedRoom' = "null"
  /\ token' = ""
  /\ isConnected' = FALSE
  /\ agentParticipant' = {}
  /\ subtitle' = <<>>
  /\ partialSubtitle' = <<>>
  /\ finalSubtitle' = <<>>
  /\ debugEvents' = <<>>
  /\ room' = NoRoom
  /\ sends' = Released(sends)
  /\ timers' = [timers EXCEPT !.test = [i \in 1..Len(@) |-> FALSE]]
  /\ sent' = <<>>
  /\ clock' = 0
  /\ last' = Ran("disconnect", <<>>, IF roomRef THEN "closed" ELSE "")
  /\ UNCHANGED <<liveKitUrl, fetches, isTranslating>>
  /\ audio' = [NoAudio EXCEPT !.ref = audio.ref]

\* disconnect (lines 644-659).  Clearing the token unmounts <LiveKitRoom>,
\* which releases its Room, and with it what the Room sent and delivered.
disconnect ==
  /\ roomRef' = FALSE
  /\ selectedRoom' = "null"
  /\ token' = ""
  /\ isConnected' = FALSE
  /\ agentParticipant' = {}
  /\ subtitle' = <<>>
  /\ partialSubtitle' = <<>>
  /\ finalSubtitle' = <<>>
  /\ debugEvents' = <<>>
  /\ isTranslating' = FALSE
  /\ room' = NoRoom
  /\ sends' = Released(sends)
  /\ timers' = [timers EXCEPT !.test = [i \in 1..Len(@) |-> FALSE]]
  /\ sent' = <<>>
  /\ clock' = 0
  /\ last' = Ran("disconnect", <<>>, IF roomRef THEN "closed" ELSE "")
  /\ UNCHANGED <<liveKitUrl, fetches>>
  /\ audio' = [NoAudio EXCEPT !.ref = audio.ref]

\* The trackSubscribed listeners of one participant (lines 383-390): each of
\* the n registered listeners runs handleTrackSubscribed on the track.
RECURSIVE RunTrackSubscribed(_, _, _)
RunTrackSubscribed(a, track, n) ==
  IF n = 0 THEN a
  ELSE RunTrackSubscribed(handleTrackSubscribed(a, track), track, n - 1)

\* <RoomAudioRenderer /> (line 1426) renders one audio element for every
\* subscribed audio track of a remote participant, agent or not, and attaches
\* the track to it.
RoomAudioRendererAttach(a, track) ==
  IF track[2] = "audio" THEN [a EXCEPT !.sinks = Append(@, track)] ELSE a

\* <RoomAudioRenderer /> drops the element of a track that is no longer
\* subscribed: one element of the track goes, if one is left.
RoomAudioRendererDetach(a, track) ==
  IF \E i \in 1..Len(a.sinks) : a.sinks[i] = track
  THEN [a EXCEPT !.sinks =
          RemoveAt(@, CHOOSE i \in 1..Len(@) :
                        @[i] = track /\ \A j \in 1..(i - 1) : @[j] # track)]
  ELSE a

\* A track of a remote participant is subscribed: the participant emits
\* trackSubscribed to the listeners registered on it (lines 383-390), and
\* the audio renderer takes the track (line 1426).
TrackSubscribed(identity, kind) ==
  /\ room.state = "connected"
  /\ InRoom(identity)
  /\ <<identity, kind>> \notin audio.subscribed
  /\ audio.events < MaxTrackEvents
  /\ audio' = [RoomAudioRendererAttach(
                  RunTrackSubscribed(audio, <<identity, kind>>, audio.listeners[identity]),
                  <<identity, kind>>)
                 EXCEPT !.subscribed = @ \cup {<<identity, kind>>},
                        !.events = @ + 1]
  /\ last' = Ran("trackSubscribed", <<identity, kind>>, "")
  /\ UNCHANGED <<selectedRoom, token, liveKitUrl, isConnected, isTranslating, subtitle,
                 partialSubtitle, finalSubtitle, agentParticipant, debugEvents, roomRef,
                 room, fetches, sends, sent, timers, clock>>

\* A subscribed track is dropped: the participant emits trackUnsubscribed to
\* the listeners registered on it (lines 392-395), and the audio renderer
\* drops its element (line 1426).
TrackUnsubscribed(identity, kind) ==
  /\ room.state = "connected"
  /\ <<identity, kind>> \in audio.subscribed
  /\ audio.events < MaxTrackEvents
  /\ audio' = [RoomAudioRendererDetach(
                  IF audio.listeners[identity] > 0
                  THEN handleTrackUnsubscribed(audio, <<identity, kind>>)
                  ELSE audio,
                  <<identity, kind>>)
                 EXCEPT !.subscribed = @ \ {<<identity, kind>>},
                        !.events = @ + 1]
  /\ last' = Ran("trackUnsubscribed", <<identity, kind>>, "")
  /\ UNCHANGED <<selectedRoom, token, liveKitUrl, isConnected, isTranslating, subtitle,
                 partialSubtitle, finalSubtitle, agentParticipant, debugEvents, roomRef,
                 room, fetches, sends, sent, timers, clock>>

\* Inputs of the full specification: a partial and a final stream event and
\* a status event; a translator and a listener.
ControlPayloads ==
  {WireText[Obj(StreamType, JStr(<<"a", "b">>), Undefined, JBool(FALSE), Undefined, Undefined, Undefined)],
   WireText[Obj(StreamType, JStr(<<"a", "b">>), Undefined, JBool(TRUE), Undefined, Undefined, Undefined)],
   WireText[Obj(StatusType, Undefined, Undefined, Undefined, JStr(S_started), Undefined, Undefined)]}
ControlIdentities == {Translator42, Listener7}
ControlInitialParticipants == {<<>>, <<Translator42>>}

Next ==
  \/ JoinRoom("Pryme-Korean")
  \/ \E i \in 1..MaxPending : JoinRoomSucceeds(i)
  \/ \E i \in 1..MaxPending : JoinRoomFails(i)
  \/ MountLiveKitRoom
  \/ \E ps \in ControlInitialParticipants : TransportConnected(ps)
  \/ handleRoomConnected
  \/ \E identity \in ControlIdentities : ParticipantConnected(identity)
  \/ \E identity \in ControlIdentities : ParticipantDisconnected(identity)
  \/ \E payload \in ControlPayloads : DataReceived(payload, MaxMsgs)
  \/ TransportDisconnected
  \/ \E microphone, flushed \in BOOLEAN : toggleTranslation(microphone, flushed)
  \/ PublishSettles
  \/ TestTimer
  \/ disconnect

Spec == Init /\ [][Next]_vars

\* The caption pipeline alone: one session is opened and the data handler
\* is run on event objects with payloads of every kind.
NextCaption ==
  \/ (fetches = <<>> /\ JoinRoom("Pryme-Korean"))
  \/ JoinRoomSucceeds(1)
  \/ MountLiveKitRoom
  \/ TransportConnected(<<>>)
  \/ handleRoomConnected
  \/ \E payload \in Payloads : EventObjectReceived(payload, MaxCaptionMsgs)

SpecCaption == Init /\ [][NextCaption]_vars

\* The caption pipeline on three payloads in a row: a final and a partial
\* text can both be held when an event of another kind arrives.  The last
\* plain text is the final text "abc" written after the partial text "ab".
ConcatPayloads ==
  {WireText[Obj(StreamType, JStr(<<"a", "b", "c">>), Undefined, JBool(TRUE), Undefined, Undefined, Undefined)],
   WireText[Obj(StreamType, JStr(<<"a", "b">>), Undefined, JBool(FALSE), Undefined, Undefined, Undefined)],
   WireText[Obj(TranslationType, JStr(<<"a", "b">>), Undefined, Undefined, Undefined, Undefined, Undefined)],
   WireText[Obj(StatusType, Undefined, Undefined, Undefined, JStr(S_started), Undefined, Undefined)],
   WireText[Obj(JStr(S_other), JStr(<<"a", "b">>), Undefined, Undefined, Undefined, Undefined, Undefined)],
   <<"a", "b">>,
   <<"a", "b", "a", "b", "c">>}

NextConcat ==
  \/ (fetches = <<>> /\ JoinRoom("Pryme-Korean"))
  \/ JoinRoomSucceeds(1)
  \/ MountLiveKitRoom
  \/ TransportConnected(<<>>)
  \/ handleRoomConnected
  \/ \E payload \in ConcatPayloads : EventObjectReceived(payload, MaxConcatMsgs)

SpecConcat == Init /\ [][NextConcat]_vars

\* One session with its participants: a partial stream event, final ones
\* and a status event arrive.
SessionPayloads ==
  ControlPayloads
  \cup {WireText[Obj(StreamType, JStr(<<"a", "b", "c">>), Undefined, JBool(TRUE), Undefined, Undefined, Undefined)]}

SessionIdentities == ControlIdentities \cup {Agent1, UpperAgent2}

NextSession ==
  \/ (fetches = <<>> /\ JoinRoom("Pryme-Korean"))
  \/ JoinRoomSucceeds(1)
  \/ MountLiveKitRoom
  \/ \E ps \in ControlInitialParticipants : TransportConnected(ps)
  \/ handleRoomConnected
  \/ \E identity \in SessionIdentities : ParticipantConnected(identity)
  \/ \E payload \in SessionPayloads : DataReceived(payload, MaxCaptionMsgs)

SpecSession == Init /\ [][NextSession]_vars
----------------------------------------------------------------------------
(* Properties of the caption state.  They read the event of the last     *)
(* delivery from last.payload and the texts it started from from           *)
(* last.before = <<subtitle, partialSubtitle, finalSubtitle>>.             *)

\* The last step called the data handler for a payload.
Arrived == last.op \in {"dataReceived", "handleDataReceived"}

\* The event the last delivery carried, when its payload is JSON.
LastEvent == JSONParse(Decode(last.payload)).doc

\* The last step delivered a JSON object of this type.
LastIsEvent(type) ==
  /\ Arrived
  /\ JSONParse(Decode(last.payload)).ok
  /\ LastEvent.k = "object"
  /\ LastEvent.type = type

IsText(v) == v.t = "string"
Absent(v) == v.t = "undefined"
TextOrAbsent(v) == IsText(v) \/ Absent(v)

\* The text of a field, empty when the field is absent.
TextOf(v) == IF IsText(v) THEN v.s ELSE <<>>

\* Empty or whitespace-only.
Blank(s) == \A i \in 1..Len(s) : s[i] \in WhiteSpace

\* The set of full-width marks the specification names.
FullWidthPunctuation ==
  {"U+3002", "U+FF01", "U+FF1F", "U+FF0C", "U+3001", "U+FF1B", "U+FF1A"}

\* The filter of the specification: a text is accepted unless it is blank or
\* trims to one character outside the punctuation set.
Accepted(s) ==
  /\ ~Blank(s)
  /\ Len(Trim(s)) = 1 => Trim(s)[1] \in FullWidthPunctuation

\* The last step applied an accepted stream event.
LastIsAcceptedStream ==
  /\ LastIsEvent(StreamType)
  /\ IsText(LastEvent.text)
  /\ Accepted(LastEvent.text.s)

LastIsFinal == LastEvent.is_final = JBool(TRUE)

\* The text of a legacy translation event: text, or content when text is
\* absent or empty.
LegacyText(data) ==
  IF IsText(data.text) /\ data.text.s # <<>> THEN data.text.s ELSE TextOf(data.content)

\* The text of a legacy translation event when content is read only if the
\* text field is absent.
LegacyTextIfAbsent(data) ==
  IF Absent(data.text) THEN TextOf(data.content) ELSE TextOf(data.text)

LastIsLegacy ==
  /\ LastIsEvent(TranslationType)
  /\ TextOrAbsent(LastEvent.text)
  /\ TextOrAbsent(LastEvent.content)

\* displayText is the partial text with the indicator, else the final text,
\* else empty.
DisplayFollowsTexts ==
  subtitle = IF partialSubtitle # <<>> THEN partialSubtitle \o <<" ", "U+23F3">>
             ELSE finalSubtitle

\* C1 as stated: in every reachable state displayText equals partialText
\* followed by the pending indicator if partialText is non-empty, else
\* finalText, else the empty string.
C1_DisplayAlwaysFollowsTexts == DisplayFollowsTexts

\* C1: in the initial state and in every state reached by applying an
\* accepted translation_stream event or a legacy translation event with
\* non-blank text, displayText equals partialText followed by the pending
\* indicator if partialText is non-empty, else finalText, else the empty
\* string.  (Status events, unknown and plain-text events write displayText
\* alone and leave the relation broken until the next such event.)
C1_DisplayFollowsTextsAfterCaption ==
  (\/ last.op = "init"
   \/ LastIsAcceptedStream
   \/ (LastIsLegacy /\ ~Blank(LegacyText(LastEvent))))
  => DisplayFollowsTexts

\* A legacy translation event has replaced a pending partial text.
C1_Witness ==
  /\ LastIsLegacy
  /\ ~Blank(LegacyText(LastEvent))
  /\ last.before[2] # <<>>
  /\ partialSubtitle = <<>>
  /\ subtitle = finalSubtitle
  /\ finalSubtitle # <<>>

\* C2 as stated: a start or stop requested while no agent has been
\* discovered, or while not connected, puts no packet on the data channel.
C2_NoPacketWithoutAgent ==
  [][(last'.op = "toggleTranslation" /\ (agentParticipant = {} \/ ~isConnected))
     => sent' = sent]_vars

\* C3: after an accepted translation_stream event with text t, if it is
\* final then finalText = t, partialText is empty and displayText = t; if
\* it is not final then partialText = t and displayText is t followed by
\* the pending indicator.
C3_AcceptedStreamResult ==
  LastIsAcceptedStream =>
    IF LastIsFinal
    THEN /\ finalSubtitle = LastEvent.text.s
         /\ partialSubtitle = <<>>
         /\ subtitle = LastEvent.text.s
    ELSE /\ partialSubtitle = LastEvent.text.s
         /\ subtitle = LastEvent.text.s \o <<" ", "U+23F3">>

\* A partial text has been applied over an earlier final text.
C3_Witness ==
  /\ LastIsAcceptedStream
  /\ ~LastIsFinal
  /\ last.before[3] # <<>>
  /\ partialSubtitle = LastEvent.text.s
  /\ subtitle = LastEvent.text.s \o <<" ", "U+23F3">>

\* C4: in a connected session with a discovered agent, a non-final
\* translation_stream event with text P leaves displayText = P followed by
\* the pending indicator, and a final translation_stream event with text F
\* that follows a pending partial text leaves displayText = F and
\* partialText empty.
C4_EndToEnd ==
  (isConnected /\ agentParticipant # {} /\ LastIsAcceptedStream) =>
    /\ ~LastIsFinal => subtitle = LastEvent.text.s \o <<" ", "U+23F3">>
    /\ (LastIsFinal /\ last.before[2] # <<>>
        /\ last.before[1] = last.before[2] \o <<" ", "U+23F3">>)
       => (subtitle = LastEvent.text.s /\ partialSubtitle = <<>>)

\* C5: a translation_stream event whose text is empty or whitespace-only,
\* final or not, leaves displayText, partialText and finalText as they were.
C5_BlankStreamChangesNothing ==
  (LastIsEvent(StreamType) /\ TextOrAbsent(LastEvent.text) /\ Blank(TextOf(LastEvent.text)))
  => Captions = last.before

\* A blank final stream event has arrived while a partial text was pending.
C5_Witness ==
  /\ LastIsEvent(StreamType)
  /\ LastEvent.text = JStr(<<" ">>)
  /\ LastIsFinal
  /\ last.before[2] # <<>>
  /\ Captions = last.before

\* C6: a translation_stream event whose text trims to exactly one character
\* updates the caption state if that character is one of the full-width
\* marks, and leaves the caption state as it was for any other character.
C6_SingleCharacterFilter ==
  (LastIsEvent(StreamType) /\ IsText(LastEvent.text) /\ Len(Trim(LastEvent.text.s)) = 1)
  => IF Trim(LastEvent.text.s)[1] \in FullWidthPunctuation
     THEN IF LastIsFinal
          THEN finalSubtitle = LastEvent.text.s /\ subtitle = LastEvent.text.s
          ELSE /\ partialSubtitle = LastEvent.text.s
               /\ subtitle = LastEvent.text.s \o <<" ", "U+23F3">>
     ELSE Captions = last.before

\* A single full-width comma has been taken as a partial text.
C6_Witness ==
  /\ LastIsEvent(StreamType)
  /\ LastEvent.text = JStr(<<"U+FF0C">>)
  /\ ~LastIsFinal
  /\ last.before[2] # <<"U+FF0C">>
  /\ partialSubtitle = <<"U+FF0C">>

\* C7: after a translation_status event with status "stopped", partialText
\* and finalText are empty, whatever they were.
C7_StoppedClearsTexts ==
  (LastIsEvent(StatusType) /\ LastEvent.status = JStr(S_stopped))
  => (partialSubtitle = <<>> /\ finalSubtitle = <<>>)

\* A "stopped" status has arrived while a text was held.
C7_Witness ==
  /\ LastIsEvent(StatusType)
  /\ LastEvent.status = JStr(S_stopped)
  /\ (last.before[2] # <<>> \/ last.before[3] # <<>>)
  /\ partialSubtitle = <<>>
  /\ finalSubtitle = <<>>

\* C8 as stated: after any sequence of applied events, displayText is never
\* the concatenation of partialText and finalText.
C8_NeverConcatenated ==
  (partialSubtitle # <<>> /\ finalSubtitle # <<>>)
  => subtitle \notin
       {partialSubtitle \o finalSubtitle,
        finalSubtitle \o partialSubtitle,
        partialSubtitle \o finalSubtitle \o PendingIndicator,
        finalSubtitle \o partialSubtitle \o PendingIndicator}

\* The text a status, unknown or plain-text payload puts on display by
\* itself.
OwnText(payload) ==
  handleDataReceived([subtitle |-> <<>>, partialSubtitle |-> <<>>,
                      finalSubtitle |-> <<>>, debugEvents |-> <<>>],
                     EventObject(payload), 0).subtitle

\* C8: after any sequence of applied events displayText is one single text:
\* empty, partialText with the indicator, finalText, or the text a status,
\* unknown or plain-text payload carries itself; it is never put together
\* from partialText and finalText.
C8_DisplayIsOneText ==
  subtitle \in
    {<<>>, partialSubtitle \o PendingIndicator, finalSubtitle}
    \cup {OwnText(payload) :
            payload \in {p \in ConcatPayloads :
                           Classify(EventObject(p)) \in
                             {"translation_status", "unknown", "plain_text"}}}

\* A final and a partial text are both held and a status event has arrived:
\* the display is the status line.
C8_Witness ==
  /\ LastIsEvent(StatusType)
  /\ partialSubtitle = <<"a", "b">>
  /\ finalSubtitle = <<"a", "b", "c">>
  /\ subtitle = OwnText(last.payload)
  /\ subtitle \notin {<<>>, partialSubtitle \o PendingIndicator, finalSubtitle}

\* C9 as stated: the text of a legacy translation event is its text field,
\* or its content field when the text field is absent; a non-blank text
\* becomes finalText and displayText and clears partialText, a blank one
\* changes nothing.
C9_LegacyContentIfTextAbsent ==
  LastIsLegacy =>
    IF ~Blank(LegacyTextIfAbsent(LastEvent))
    THEN /\ finalSubtitle = LegacyTextIfAbsent(LastEvent)
         /\ partialSubtitle = <<>>
         /\ subtitle = LegacyTextIfAbsent(LastEvent)
    ELSE Captions = last.before

\* C9: the text of a legacy translation event is its text field, or its
\* content field when the text field is absent or empty; a non-blank text
\* becomes finalText and displayText and clears partialText, a blank one
\* changes nothing.
C9_LegacyTranslationIsFinal ==
  LastIsLegacy =>
    IF ~Blank(LegacyText(LastEvent))
    THEN /\ finalSubtitle = LegacyText(LastEvent)
         /\ partialSubtitle = <<>>
         /\ subtitle = LegacyText(LastEvent)
    ELSE Captions = last.before

\* A legacy event without text field has delivered its content as the final
\* text.
C9_Witness ==
  /\ LastIsLegacy
  /\ Absent(LastEvent.text)
  /\ LastEvent.content = JStr(<<"c", "d">>)
  /\ finalSubtitle = <<"c", "d">>
  /\ subtitle = <<"c", "d">>
  /\ partialSubtitle = <<>>

\* C10: a transcript event, whatever its text, is_final and confidence,
\* leaves displayText, partialText and finalText as they were (text and
\* content being strings or absent).
C10_TranscriptChangesNothing ==
  (LastIsEvent(TranscriptType) /\ TextOrAbsent(LastEvent.text)
   /\ TextOrAbsent(LastEvent.content))
  => Captions = last.before

\* A transcript with text has arrived while a caption was shown.
C10_Witness ==
  /\ LastIsEvent(TranscriptType)
  /\ LastEvent.text = JStr(<<"a", "b">>)
  /\ last.before[1] # <<>>
  /\ Captions = last.before

\* The last step delivered a JSON object whose type is none of the four the
\* handler knows, or is missing.
LastIsUnknown ==
  /\ Arrived
  /\ JSONParse(Decode(last.payload)).ok
  /\ LastEvent.k = "object"
  /\ LastEvent.type \notin {StreamType, TranslationType, TranscriptType, StatusType}
  /\ TextOrAbsent(LastEvent.text)

\* C11 as stated: an event of unknown or missing type sets displayText to
\* its text when the text is not blank, and otherwise leaves displayText,
\* partialText and finalText as they were.
C11_UnknownShowsTextOrNothing ==
  LastIsUnknown =>
    IF ~Blank(TextOf(LastEvent.text))
    THEN subtitle = LastEvent.text.s
    ELSE Captions = last.before

\* The last step delivered a payload that is no JSON text.
LastIsPlainText ==
  /\ Arrived
  /\ ~JSONParse(Decode(last.payload)).ok

\* C12: a payload that does not parse as JSON sets displayText to the
\* decoded text when that text is not blank, and leaves displayText,
\* partialText and finalText as they were when it is empty or blank.
C12_PlainTextShownUnlessBlank ==
  LastIsPlainText =>
    IF ~Blank(Decode(last.payload))
    THEN subtitle = Decode(last.payload)
    ELSE Captions = last.before

\* Plain text has replaced the display of a pending partial text.
C12_Witness ==
  /\ LastIsPlainText
  /\ last.payload = <<"a", "b">>
  /\ last.before[2] # <<>>
  /\ subtitle = <<"a", "b">>
  /\ partialSubtitle = last.before[2]

----------------------------------------------------------------------------
(* The event history *)

\* One session in which the same partial stream event arrives again and
\* again: the history fills and overflows.
TracePayload ==
  WireText[Obj(StreamType, JStr(<<"a", "b">>), Undefined, JBool(FALSE), Undefined, Undefined, Undefined)]

NextTrace ==
  \/ (fetches = <<>> /\ JoinRoom("Pryme-Korean"))
  \/ JoinRoomSucceeds(1)
  \/ MountLiveKitRoom
  \/ TransportConnected(<<>>)
  \/ handleRoomConnected
  \/ EventObjectReceived(TracePayload, MaxTraceMsgs)

SpecTrace == Init /\ [][NextTrace]_vars

\* The first n entries of a sequence (all of them when it is shorter).
FirstOf(n, seq) == SubSeq(seq, 1, IF Len(seq) < n THEN Len(seq) ELSE n)

\* C13: the history never holds more than 20 entries, and a delivery puts
\* its entry (once per listener) in front of the entries held and keeps the
\* first 20 of the result: the entries are ordered newest first and only
\* the oldest ones are dropped.
C13_TraceBufferBound ==
  [][last'.op \in {"dataReceived", "handleDataReceived"} =>
       /\ Len(debugEvents') <= 20
       /\ \E new \in {<<EventInfo(LastEvent', clock')>>,
                      <<EventInfo(LastEvent', clock'), EventInfo(LastEvent', clock')>>} :
            debugEvents' = FirstOf(20, new \o debugEvents)]_vars

\* 25 events were inserted one by one: the history holds the last 20, the
\* 25th first and the 6th last.
C13_Witness ==
  /\ clock = 25
  /\ room.onDataReceived = 1
  /\ Len(debugEvents) = 20
  /\ debugEvents[1].received_at = 25
  /\ debugEvents[20].received_at = 6

----------------------------------------------------------------------------
(* The agent and the session *)

\* sub occurs in s, case-sensitively.
HasSubstring(s, sub) ==
  \E i \in 1..Len(s) : \E j \in i..Len(s) : SubSeq(s, i, j) = sub

\* C14: a participant whose identity contains "translator" or "agent"
\* becomes the current agent when it joins; the join of a participant whose
\* identity contains neither leaves the current agent as it was.
C14_AgentHeuristic ==
  [][last'.op = "participantConnected" =>
       agentParticipant' =
         IF \/ HasSubstring(last'.payload, <<"t", "r", "a", "n", "s", "l", "a", "t", "o", "r">>)
            \/ HasSubstring(last'.payload, <<"a", "g", "e", "n", "t">>)
         THEN {last'.payload}
         ELSE agentParticipant]_vars

\* "agent-1" is the current agent and the join of "Agent-2" has left it so.
C14_Witness ==
  /\ last.op = "participantConnected"
  /\ last.payload = UpperAgent2
  /\ agentParticipant = {Agent1}

\* C15 as stated, for the current agent: when the participant that is the
\* current agent leaves the room, there is no current agent any more.
C15_AgentLeaveClearsAgent ==
  [][(last'.op = "participantDisconnected" /\ agentParticipant = {last'.payload})
     => agentParticipant' = {}]_vars

programVars ==
  <<selectedRoom, token, liveKitUrl, isConnected, isTranslating, subtitle,
    partialSubtitle, finalSubtitle, agentParticipant, debugEvents, roomRef, room,
    fetches, sends, sent, timers, clock, audio>>

\* C17 as stated: disconnect() called while the controller is disconnected
\* (after a disconnect(), after the transport has reported the loss of the
\* connection, or before any session) changes no state and closes no
\* transport.
C17_DisconnectIdempotent ==
  [][(/\ ~isConnected
      /\ ~(token # "" /\ ~room.mounted)
      /\ last'.op = "disconnect")
     => (UNCHANGED programVars /\ last'.result = "")]_vars

\* C18 as stated: start() or stop() called while connected with an agent
\* discovered always hands a control command to the data channel.
C18_CommandWheneverAgentPresent ==
  [][(last'.op = "toggleTranslation" /\ isConnected /\ roomRef /\ agentParticipant # {})
     => Len(sends') = Len(sends) + 1]_vars

\* C18: start() (resp. stop()) called while connected with an agent
\* discovered and the local microphone published and unmuted hands the
\* command {type: "translation_control", action: "start" (resp. "stop"),
\* room: the selected room} to the reliable channel, and once the channel
\* has taken it the controller is translating (resp. not translating), no
\* inbound message being awaited; with the microphone missing or muted the
\* call is refused and nothing is sent.
C18_ControlCommand ==
  [][/\ (last'.op = "toggleTranslation" /\ isConnected /\ roomRef /\ agentParticipant # {})
        => IF last'.result = "no microphone"
           THEN sends' = sends /\ sent' = sent /\ isTranslating' = isTranslating
           ELSE /\ last'.result = (IF isTranslating THEN "stop" ELSE "start")
                /\ Len(sends') = Len(sends) + 1
                /\ sends'[Len(sends')].action = last'.result
                /\ sends'[Len(sends')].flushed
                   => sent' = Append(sent, [type |-> <<"t", "r", "a", "n", "s", "l", "a", "t", "i", "o", "n", "_", "c", "o", "n", "t", "r", "o", "l">>,
                                           action |-> last'.result,
                                           room |-> selectedRoom])
     /\ (last'.op = "publishData" /\ Head(sends).flushed)
        => (isTranslating' = (Head(sends).action = "start") /\ clock' = clock)]_vars

\* A start command was taken by the channel with the agent present, and the
\* controller is translating although the Room has delivered nothing.
C18_Witness ==
  /\ last.op = "publishData"
  /\ last.result = "start"
  /\ isTranslating
  /\ isConnected
  /\ agentParticipant # {}
  /\ clock = 0
  /\ Len(sent) = 1
  /\ sent[1].action = "start"
  /\ sent[1].room = "Pryme-Korean"

\* C19: a disconnect signal of the transport, in whatever state it finds
\* the controller (connected, agent discovered, translating, stopped),
\* leaves it not connected and without current agent; the initial state is
\* disconnected; and a connect attempt starts from a disconnected controller
\* and leads to a Room that is connecting.
C19_TransportDisconnect ==
  /\ last.op = "onDisconnected"
     => (~isConnected /\ agentParticipant = {} /\ room.state = "disconnected")
  /\ last.op = "init"
     => (~isConnected /\ agentParticipant = {} /\ selectedRoom = "null" /\ token = ""
         /\ ~room.mounted)
  /\ (last.op = "joinRoom" /\ last.result = "fetching")
     => (fetches # <<>> /\ ~isConnected /\ ~room.mounted)
  /\ last.op = "mount" => (room.mounted /\ room.state = "connecting")

\* The transport dropped while the controller was translating.
C19_Witness ==
  /\ last.op = "onDisconnected"
  /\ isTranslating
  /\ sent # <<>>
  /\ ~isConnected
  /\ agentParticipant = {}
  /\ room.state = "disconnected"

\* C20: a credential request that fails (no answer, a status that is not
\* 2xx, or a body with an error field) ends the connect attempt: the
\* credential, the server address and the selected room are left as they
\* were (unset when no other attempt has set them), no Room is opened, the
\* controller stays not connected as it was, and no new request is issued.
C20_CredentialFailure ==
  [][(last'.op = "joinRoom" /\ last'.result = "error")
     => /\ UNCHANGED <<selectedRoom, token, liveKitUrl, isConnected, roomRef, room,
                       agentParticipant, isTranslating>>
        /\ Len(fetches') = Len(fetches) - 1]_vars

\* The only connect attempt has failed: nothing is set and nothing is open.
C20_Witness ==
  /\ last.op = "joinRoom"
  /\ last.result = "error"
  /\ selectedRoom = "null"
  /\ token = ""
  /\ liveKitUrl = ""
  /\ ~isConnected
  /\ ~room.mounted
  /\ fetches = <<>>

----------------------------------------------------------------------------
(* The data handler as a whole *)

\* The event variants.
EventVariants ==
  {"translation_stream", "translation", "transcript", "translation_status",
   "unknown", "plain_text"}

\* C21: whatever the payload (a JSON object of any type, JSON that is no
\* object, text that is no JSON, bytes that are no text), the data handler
\* takes it for one of the event variants and ends without an exception.
C21_DecodingTotal ==
  Arrived => last.result \in EventVariants

\* The payload null, on which reading the type throws, was taken as plain
\* text while a caption was shown.
C21_Witness ==
  /\ Arrived
  /\ last.payload = S_null
  /\ last.result = "plain_text"
  /\ last.before[1] # <<>>
  /\ subtitle = S_null

\* The caption texts one run of the handler leaves when it starts from the
\* texts c with an empty history at time 0.
ApplyAlone(c, payload) ==
  LET st == handleDataReceived([subtitle |-> c[1], partialSubtitle |-> c[2],
                                finalSubtitle |-> c[3], debugEvents |-> <<>>],
                               EventObject(payload), 0)
  IN  <<st.subtitle, st.partialSubtitle, st.finalSubtitle>>

\* C22: the caption texts after a delivery are a function of the texts
\* before it and of the payload alone: they are those of a single run from
\* an empty history at time 0, whatever the history holds, whatever the
\* arrival time and however many listeners ran.
C22_ReducerDeterministic ==
  Arrived => Captions = ApplyAlone(last.before, last.payload)

\* A second stream event was applied by two listeners on a history that
\* was not empty.
C22_Witness ==
  /\ LastIsAcceptedStream
  /\ clock = 2
  /\ room.onDataReceived = 2
  /\ Len(debugEvents) >= 3
  /\ last.before[1] # <<>>
  /\ Captions = ApplyAlone(last.before, last.payload)
  /\ Captions # last.before

\* C23 as stated, for the insertion: every payload delivered, plain text
\* and filtered stream events included, leaves an entry of its own at the
\* front of the event history.
C23_EveryPayloadTraced ==
  Arrived
  => (debugEvents # <<>> /\ debugEvents[1].received_at = clock)

\* C24 as stated: the data-received listener is registered at most once on
\* the Room of a session, and the payloads delivered have left at most one
\* history entry each.
C24_SingleListener ==
  /\ room.onDataReceived <= 1
  /\ Len(debugEvents) <= clock

----------------------------------------------------------------------------
(* Connecting *)

\* C25 as stated, for the credential: a credential request that was pending
\* when disconnect() ran and succeeds right after it installs nothing: no
\* credential, no selected room.
C25_StaleSuccessIgnored ==
  [][(last.op = "disconnect" /\ last'.op = "joinRoom" /\ last'.result = "ok")
     => (token' = "" /\ selectedRoom' = "null")]_vars

\* C26 as stated: the controller is never connected while the transport of
\* its Room is still connecting.
C26_ConnectedOnlyAfterTransport ==
  ~(isConnected /\ room.mounted /\ room.state = "connecting")

\* The identity matches the agent heuristic.
MatchesAgent(identity) ==
  \/ HasSubstring(identity, <<"t", "r", "a", "n", "s", "l", "a", "t", "o", "r">>)
  \/ HasSubstring(identity, <<"a", "g", "e", "n", "t">>)

\* The Room holds a participant matching the agent heuristic.
HoldsMatch == \E i \in 1..Len(room.participants) : MatchesAgent(room.participants[i])

\* The matching participant that comes last in the Room's participants.
LastMatch ==
  LET i == CHOOSE j \in 1..Len(room.participants) :
             /\ MatchesAgent(room.participants[j])
             /\ \A k \in (j + 1)..Len(room.participants) : ~MatchesAgent(room.participants[k])
  IN  room.participants[i]

\* C27: when the connected handler has run on a Room that holds a
\* participant matching the agent heuristic, the handler itself has made the
\* last such participant the current agent, whether or not a
\* participant-joined event ever came.
C27_ReplayDiscoversAgent ==
  (last.op = "handleRoomConnected" /\ last.result = "listening" /\ HoldsMatch)
  => agentParticipant = {LastMatch}

\* The translator was in the room at connection time, no participant-joined
\* event has come for it (the replay has registered its only pair of track
\* listeners), and the connected handler has made it the agent.
C27_Witness ==
  /\ last.op = "handleRoomConnected"
  /\ last.result = "listening"
  /\ room.participants = <<Translator42>>
  /\ audio.listeners[Translator42] = 1
  /\ agentParticipant = {Translator42}


\* ---------------------------------------------------------------------------
\* Audio tracks: one session with two matching participants, a listener and
\* their tracks.

AudioIdentities == {Translator42, Agent1, Listener7}
TrackKinds == {"audio", "video"}

NextAudio ==
  \/ (fetches = <<>> /\ JoinRoom("Pryme-Korean"))
  \/ JoinRoomSucceeds(1)
  \/ MountLiveKitRoom
  \/ \E ps \in ControlInitialParticipants : TransportConnected(ps)
  \/ handleRoomConnected
  \/ \E identity \in AudioIdentities : ParticipantConnected(identity)
  \/ \E identity \in AudioIdentities, kind \in TrackKinds : TrackSubscribed(identity, kind)
  \/ \E identity \in AudioIdentities, kind \in TrackKinds : TrackUnsubscribed(identity, kind)

SpecAudio == Init /\ [][NextAudio]_vars

\* The number of playback sinks attached for a track.
SinksOf(track) == Cardinality({i \in DOMAIN audio.sinks : audio.sinks[i] = track})

\* C28: at any time at most one playback sink is attached per agent audio
\* track; a repeated track-subscribed for the same track replaces the sink
\* instead of adding a second one.
C28_OneSinkPerTrack ==
  \A identity \in Identities : SinksOf(<<identity, "audio">>) <= 1

\* C29: a playback sink is attached only for a subscribed audio track of the
\* participant that is the current agent at that moment, and after
\* track-unsubscribed no sink and no sink reference for that track remains.
C29_SinkOnlyForCurrentAgent ==
  /\ (last.op = "trackSubscribed" /\ SinksOf(last.payload) > 0)
       => (last.payload[2] = "audio" /\ agentParticipant = {last.payload[1]})
  /\ last.op = "trackUnsubscribed"
       => (SinksOf(last.payload) = 0 /\ audio.ref # last.payload)

\* C30: when a participant matching the agent heuristic joins while an agent
\* is already tracked, the participant that joined becomes the current
\* agent; at most one agent is tracked at any time.
C30_MostRecentMatchWins ==
  /\ [](Cardinality(agentParticipant) <= 1)
  /\ [][(/\ agentParticipant # {}
         /\ last'.op = "participantConnected"
         /\ MatchesAgent(last'.payload))
        => agentParticipant' = {last'.payload}]_vars

\* "translator-42" was matched and tracked, then "agent-1" joined and is the
\* current agent.
C30_Witness ==
  /\ last.op = "participantConnected"
  /\ last.payload = Agent1
  /\ InRoom(Translator42)
  /\ audio.listeners[Translator42] > 0
  /\ agentParticipant = {Agent1}

\* ---------------------------------------------------------------------------
\* The control commands: one session in which start and stop are requested,
\* a second request possibly while the send of the first awaits its flush.

NextControl ==
  \/ (fetches = <<>> /\ JoinRoom("Pryme-Korean"))
  \/ JoinRoomSucceeds(1)
  \/ MountLiveKitRoom
  \/ \E ps \in ControlInitialParticipants : TransportConnected(ps)
  \/ handleRoomConnected
  \/ \E microphone, flushed \in BOOLEAN :
       toggleTranslationWithin(microphone, flushed, MaxControlPending, MaxControlSent)
  \/ PublishSettles
  \/ TestTimer

SpecControl == Init /\ [][NextControl]_vars

\* C31: when the send of a start or stop command fails, the failure is shown
\* to the caller and the connection state is left as it was: the controller
\* stays connected to the same Room and keeps its agent.
C31_SendFailureKeepsConnection ==
  [][(last'.op = "publishData" /\ last'.result = "rejected")
     => (/\ subtitle' = FailedNotice
         /\ isConnected' = isConnected
         /\ agentParticipant' = agentParticipant
         /\ roomRef' = roomRef
         /\ room' = room)]_vars

\* A send has failed in a connected session with the agent "translator-42".
C31_Witness ==
  /\ last.op = "publishData"
  /\ last.result = "rejected"
  /\ subtitle = FailedNotice
  /\ isConnected
  /\ room.state = "connected"
  /\ agentParticipant = {Translator42}

\* The payload holds a byte sequence that is not UTF-8.
NotUtf8(payload) == \E i \in 1..Len(payload) : payload[i] = InvalidByte

\* C32: a payload that is not valid UTF-8 is dropped; it changes none of the
\* display text, the partial text and the final text.
C32_InvalidUtf8Dropped ==
  (Arrived /\ NotUtf8(last.payload)) => Captions = last.before

\* C33: the caption state is changed only by inbound events and cleared by
\* disconnect: a start or stop request, whether it is rejected, sent, or
\* fails to send, leaves the display, partial and final texts as they were.
C33_ControlLeavesCaptions ==
  last.op \in {"toggleTranslation", "publishData"} => Captions = last.before

\* C39: after disconnect and until the next session is mounted, what was
\* scheduled before the disconnect (the continuation of a send, the delayed
\* test send, the delayed connected handler) publishes nothing and leaves
\* the controller as disconnect left it.
C39_NoLateEffects ==
  (~room.mounted /\ last.op \in {"publishData", "testTimer", "handleRoomConnected"})
    => (/\ ~isTranslating
        /\ ~isConnected
        /\ Captions = <<<<>>, <<>>, <<>>>>
        /\ sent = <<>>)

\* C34: the controller stays usable after a failure or a disconnect: the
\* session of a later connect whose credential request succeeds starts with
\* an empty caption state, an empty event history and no agent.
C34_FreshAfterReconnect ==
  last.op = "mount"
    => (/\ isConnected
        /\ Captions = <<<<>>, <<>>, <<>>>>
        /\ debugEvents = <<>>
        /\ agentParticipant = {})

\* C35: in every reachable state the translating flag implies that the
\* controller is connected; a disconnect signal of the transport never
\* leaves the controller translating while disconnected.
C35_TranslatingImpliesConnected ==
  /\ isTranslating => isConnected
  /\ last.op = "onDisconnected" => ~isTranslating

\* The control commands on the channel, in the order they were sent.
ControlActions ==
  LET commands == SelectSeq(sent, LAMBDA m : m.type = S_translation_control)
  IN  [i \in 1..Len(commands) |-> commands[i].action]

\* C36: within one session the control commands on the channel alternate:
\* between two "start" commands a "stop" command was sent, also when a
\* request is made while the send of the previous one awaits its flush.
C36_CommandsAlternate ==
  \A i \in 1..(Len(ControlActions) - 1) : ControlActions[i] # ControlActions[i + 1]

\* C37: a failed send leaves the translating flag as it was before the
\* call: translating after a failed "stop", not translating after a failed
\* "start".
C37_FailedSendKeepsTranslating ==
  [][(last'.op = "publishData" /\ last'.result = "rejected")
     => isTranslating' = isTranslating]_vars

\* C38: the client publishes translation_control commands only; no packet of
\* another type, in particular no translation_stream event, is put on the
\* data channel.
C38_OnlyControlPublished ==
  \A i \in 1..Len(sent) : sent[i].type = S_translation_control

\* C40: a payload that parses as JSON is never shown raw: the display text
\* is not the undecoded text of the payload, whatever the type and the
\* fields of the document.
C40_StructuredNeverShownRaw ==
  (Arrived /\ JSONParse(Decode(last.payload)).ok)
    => subtitle # Decode(last.payload)
====
